---- MODULE Spec2Model ----
(***************************************************************************)
(* A model of muxinc/protogen, package proto3 (src/proto3/spec.go): the    *)
(* validation and rendering of a Protobuf specification tree.              *)
(*                                                                         *)
(* Text is modelled as a sequence of lines; a line is a record             *)
(* [indent |-> number of leading spaces, body |-> the rest of the line].   *)
(* The empty string "" returned on failure is the empty sequence << >>.    *)
(* A block returned by a Write method (no trailing newline) is the         *)
(* sequence of its lines; the "\n" a caller appends terminates the last    *)
(* one, and each further "\n" is one blank line.                           *)
(***************************************************************************)
EXTENDS Integers, Sequences, FiniteSets, TLC

VARIABLES s, e, leaf, block, heap, writers, calls

vars == <<s, e, leaf, block, heap, writers, calls>>

(***************************************************************************)
(* Bounds of the model.                                                    *)
(***************************************************************************)
\* number of calls made on one specification
MaxCalls == 2
\* number of calls made on one enumeration or leaf held alone
MaxDirectCalls == 1
\* number of places in which a document departs from the base document
MaxEdits == 2
\* length of the value list of an enumeration checked alone
MaxValues == 7
\* largest tag of the values of an enumeration checked alone
MaxEnumTag == 1

(***************************************************************************)
(* Primitive types.                                                        *)
(***************************************************************************)
\* TagType, FieldType and FieldRule are uint8
UInt8Bits == 8
UInt8 == 0 .. (2 ^ UInt8Bits - 1)

\* conversion of an integer to TagType: TagType(n)
TagType(n) == n % (2 ^ UInt8Bits)

None == 0
Repeated == 1

DoubleType == 0
FloatType == 1
Int32Type == 2
Int64Type == 3
UInt32Type == 4
UInt64Type == 5
SInt32Type == 6
SInt64Type == 7
Fixed32Type == 8
Fixed64Type == 9
SFixed32Type == 10
SFixed64Type == 11
BoolType == 12
StringType == 13
BytesType == 14

\* the nil error
nil == "<nil>"

\* the absent receiver of a specification that does not use it
NoValue == [kind |-> "none"]

(***************************************************************************)
(* Formatting.                                                             *)
(***************************************************************************)
Line(n, body) == [indent |-> n, body |-> body]

BlankLine == Line(0, "")

\* indentLevel: two spaces per level, nothing for a level below one;
\* the result is the number of spaces written
indentLevel(level) == IF level > 0 THEN 2 * level ELSE 0

FieldRuleWrite(rule) ==
  CASE rule = None -> ""
    [] rule = Repeated -> "repeated "
    [] OTHER -> ""

FieldTypeWrite(t) ==
  CASE t = DoubleType -> "double"
    [] t = FloatType -> "float"
    [] t = Int32Type -> "int32"
    [] t = Int64Type -> "int64"
    [] t = UInt32Type -> "uint32"
    [] t = UInt64Type -> "uint64"
    [] t = SInt32Type -> "sint32"
    [] t = SInt64Type -> "sint64"
    [] t = Fixed32Type -> "fixed32"
    [] t = Fixed64Type -> "fixed64"
    [] t = SFixed32Type -> "sfixed32"
    [] t = SFixed64Type -> "sfixed64"
    [] t = BoolType -> "bool"
    [] t = StringType -> "string"
    [] t = BytesType -> "bytes"
    [] OTHER -> ""

\* the "   // comment" suffix of a field line
WithComment(v, comment) == IF comment # "" THEN v \o "   // " \o comment ELSE v

(***************************************************************************)
(* Constructors of the entities (the struct literals of a caller).         *)
(***************************************************************************)
ReservedName(name) == [kind |-> "ReservedName", Name |-> name]

ReservedTagValue(tag) == [kind |-> "ReservedTagValue", Tag |-> tag]

ReservedTagRange(lower, upper) ==
  [kind |-> "ReservedTagRange", LowerTag |-> lower, UpperTag |-> upper]

CustomField(name, tag, rule, comment, typing) ==
  [kind |-> "CustomField", Name |-> name, Tag |-> tag, Rule |-> rule,
   Comment |-> comment, Typing |-> typing]

ScalarField(name, tag, rule, comment, typing) ==
  [kind |-> "ScalarField", Name |-> name, Tag |-> tag, Rule |-> rule,
   Comment |-> comment, Typing |-> typing]

MapField(name, tag, rule, comment, key, value) ==
  [kind |-> "MapField", Name |-> name, Tag |-> tag, Rule |-> rule,
   Comment |-> comment, KeyTyping |-> key, ValueTyping |-> value]

CustomMapField(name, tag, rule, comment, key, value) ==
  [kind |-> "CustomMapField", Name |-> name, Tag |-> tag, Rule |-> rule,
   Comment |-> comment, KeyTyping |-> key, ValueTyping |-> value]

EnumValue(name, tag, comment) == [Name |-> name, Tag |-> tag, Comment |-> comment]

Enum(name, values, alias, comment) ==
  [Name |-> name, Values |-> values, AllowAlias |-> alias, Comment |-> comment]

OneOf(name, fields, comment) == [Name |-> name, Fields |-> fields, Comment |-> comment]

Message(name, comment, messages, reserved, fields, oneofs, enums) ==
  [Name |-> name, Comment |-> comment, Messages |-> messages,
   ReservedValues |-> reserved, Fields |-> fields, OneOfs |-> oneofs,
   Enums |-> enums]

(***************************************************************************)
(* Validators of the leaves.                                               *)
(***************************************************************************)
ScalarFieldValidate(f) ==
  IF f.Name = "" THEN "Scalar field must have a non-empty name" ELSE nil

ReservedNameValidate(r) ==
  IF r.Name = "" THEN "ReservedName field must have a non-empty name" ELSE nil

ReservedTagValueValidate(r) == nil

\* ReservedTagRange.Validate comparing the bounds with > in place of >=
ReservedTagRangeValidateStrict(r) ==
  IF r.LowerTag < 0
    THEN "ReservedTagRange lower-tag must be greater-than-or-equal to zero"
  ELSE IF r.LowerTag > r.UpperTag
    THEN "ReservedTagRange upper-tag must be greater-than lower-tag"
  ELSE nil

\* ReservedTagRange.Validate with the bounds of the comparison exchanged
ReservedTagRangeValidateSwapped(r) ==
  IF r.LowerTag < 0
    THEN "ReservedTagRange lower-tag must be greater-than-or-equal to zero"
  ELSE IF r.UpperTag >= r.LowerTag
    THEN "ReservedTagRange upper-tag must be greater-than lower-tag"
  ELSE nil

ReservedTagRangeValidate(r) ==
  IF r.LowerTag < 0
    THEN "ReservedTagRange lower-tag must be greater-than-or-equal to zero"
  ELSE IF r.LowerTag >= r.UpperTag
    THEN "ReservedTagRange upper-tag must be greater-than lower-tag"
  ELSE nil

CustomFieldValidate(c) ==
  IF c.Name = "" THEN "CustomField name must have non-empty name"
  ELSE IF c.Tag < 0 THEN "CustomField must have positive integer for tag"
  ELSE nil

\* CustomMapField.Validate without the BytesType case of the key check
CustomMapFieldValidateBytesKey(c) ==
  IF c.Name = "" THEN "CustomMapField name must have non-empty name"
  ELSE IF c.KeyTyping < 0 \/ c.KeyTyping = DoubleType \/ c.KeyTyping = FloatType
    THEN "Map field " \o c.Name
           \o " must use a scalar integral or string type for the map key"
  ELSE IF c.Rule = Repeated THEN "CustomMapField cannot use repeated rule"
  ELSE nil

CustomMapFieldValidate(c) ==
  IF c.Name = "" THEN "CustomMapField name must have non-empty name"
  ELSE IF c.KeyTyping < 0 \/ c.KeyTyping = DoubleType \/ c.KeyTyping = FloatType
          \/ c.KeyTyping = BytesType
    THEN "Map field " \o c.Name
           \o " must use a scalar integral or string type for the map key"
  ELSE IF c.Rule = Repeated THEN "CustomMapField cannot use repeated rule"
  ELSE nil

MapFieldValidate(m) ==
  IF m.Name = "" THEN "MapField must have a non-empty name"
  ELSE IF m.KeyTyping < 0 \/ m.KeyTyping = DoubleType \/ m.KeyTyping = FloatType
          \/ m.KeyTyping = BytesType
    THEN "Map field " \o m.Name
           \o " must use a scalar integral or string type for the map key"
  ELSE IF m.ValueTyping < 0
    THEN "Map field " \o m.Name \o " must have a type specified for the map value"
  ELSE IF m.Rule = Repeated THEN "MapField cannot use repeated rule"
  ELSE nil

\* v.Validate() on a Field or Reserved interface value: dynamic dispatch
LeafValidate(v) ==
  CASE v.kind = "ScalarField" -> ScalarFieldValidate(v)
    [] v.kind = "CustomField" -> CustomFieldValidate(v)
    [] v.kind = "MapField" -> MapFieldValidate(v)
    [] v.kind = "CustomMapField" -> CustomMapFieldValidate(v)
    [] v.kind = "ReservedName" -> ReservedNameValidate(v)
    [] v.kind = "ReservedTagValue" -> ReservedTagValueValidate(v)
    [] v.kind = "ReservedTagRange" -> ReservedTagRangeValidate(v)

(***************************************************************************)
(* Writers of the leaves: the text of one line, without indentation.       *)
(***************************************************************************)
ReservedNameWrite(r) == "\"" \o r.Name \o "\""

ReservedTagValueWrite(r) == ToString(r.Tag)

ReservedTagRangeWrite(r) == ToString(r.LowerTag) \o " to " \o ToString(r.UpperTag)

CustomFieldWrite(c) ==
  WithComment(FieldRuleWrite(c.Rule) \o c.Typing \o " " \o c.Name \o " = "
                \o ToString(c.Tag) \o ";", c.Comment)

ScalarFieldWrite(f) ==
  WithComment(FieldRuleWrite(f.Rule) \o FieldTypeWrite(f.Typing) \o " " \o f.Name
                \o " = " \o ToString(f.Tag) \o ";", f.Comment)

MapFieldWrite(m) ==
  WithComment(FieldRuleWrite(m.Rule) \o "map<" \o FieldTypeWrite(m.KeyTyping) \o ", "
                \o FieldTypeWrite(m.ValueTyping) \o "> " \o m.Name \o " = "
                \o ToString(m.Tag) \o ";", m.Comment)

CustomMapFieldWrite(c) ==
  WithComment(FieldRuleWrite(c.Rule) \o "map<" \o FieldTypeWrite(c.KeyTyping) \o ", "
                \o c.ValueTyping \o "> " \o c.Name \o " = " \o ToString(c.Tag) \o ";",
              c.Comment)

\* v.Write() on a Field or Reserved interface value; no leaf writer fails
LeafWrite(v) ==
  [err |-> nil,
   text |-> CASE v.kind = "ScalarField" -> ScalarFieldWrite(v)
              [] v.kind = "CustomField" -> CustomFieldWrite(v)
              [] v.kind = "MapField" -> MapFieldWrite(v)
              [] v.kind = "CustomMapField" -> CustomMapFieldWrite(v)
              [] v.kind = "ReservedName" -> ReservedNameWrite(v)
              [] v.kind = "ReservedTagValue" -> ReservedTagValueWrite(v)
              [] v.kind = "ReservedTagRange" -> ReservedTagRangeWrite(v)]

(***************************************************************************)
(* Enumerations.                                                           *)
(***************************************************************************)
\* the loop of Enum.Validate remembering the tag of the previous value only
RECURSIVE DuplicateTagScanAdjacent(_, _, _)
DuplicateTagScanAdjacent(values, i, tags) ==
  IF i > Len(values) THEN nil
  ELSE IF values[i].Tag \in tags
    THEN "Enum value has tag that is already in use while aliasing is not allowed: "
           \o values[i].Name
  ELSE DuplicateTagScanAdjacent(values, i + 1, {values[i].Tag})

\* the loop of Enum.Validate over e.Values with the map tags: the name of the
\* first value whose tag is already a key of the map, or nil
RECURSIVE DuplicateTagScan(_, _, _)
DuplicateTagScan(values, i, tags) ==
  IF i > Len(values) THEN nil
  ELSE IF values[i].Tag \in tags
    THEN "Enum value has tag that is already in use while aliasing is not allowed: "
           \o values[i].Name
  ELSE DuplicateTagScan(values, i + 1, tags \cup {values[i].Tag})

EnumValidate(en) ==
  IF en.Name = "" THEN "Enum must have a non-empty name"
  ELSE IF Len(en.Values) = 0 THEN "Enum must have non-empty set of values"
  ELSE IF en.AllowAlias = FALSE THEN DuplicateTagScan(en.Values, 1, {})
  ELSE nil

\* Enum.Len, Enum.Less and Enum.Swap; positions count from 0 as in the source
EnumLen(values) == Len(values)

\* Enum.Less with the comparison turned round
EnumLessGreater(values, i, j) == values[i + 1].Tag > values[j + 1].Tag

EnumLess(values, i, j) == values[i + 1].Tag < values[j + 1].Tag

\* Enum.Swap that stores one of the two values only
EnumSwapOneWay(values, i, j) == [values EXCEPT ![i + 1] = values[j + 1]]

EnumSwap(values, i, j) ==
  [values EXCEPT ![i + 1] = values[j + 1], ![j + 1] = values[i + 1]]

\* sort.Sort of the Go release the build installs (go1.8.1, src/circle.yml):
\* quickSort(data, 0, n, maxDepth(n)).  A slice of at most ShellSortMax
\* elements gets one ShellSort pass with gap ShellSortGap, then an insertion
\* sort; a longer one is split around a pivot first
ShellSortMax == 12
ShellSortGap == 6

RECURSIVE ShellPass(_, _, _)
ShellPass(values, i, b) ==
  IF i < b
    THEN ShellPass(IF EnumLess(values, i, i - ShellSortGap)
                     THEN EnumSwap(values, i, i - ShellSortGap)
                     ELSE values,
                   i + 1, b)
    ELSE values

RECURSIVE InsertionInner(_, _, _)
InsertionInner(values, j, a) ==
  IF j > a /\ EnumLess(values, j, j - 1)
    THEN InsertionInner(EnumSwap(values, j, j - 1), j - 1, a)
    ELSE values

RECURSIVE InsertionSort(_, _, _, _)
InsertionSort(values, a, i, b) ==
  IF i < b THEN InsertionSort(InsertionInner(values, i, a), a, i + 1, b)
  ELSE values

\* medianOfThree(data, m1, m0, m2): the median of the three ends up at m1
MedianOfThreeLast(values, m1, m0, m2) ==
  IF EnumLess(values, m1, m0) THEN EnumSwap(values, m1, m0) ELSE values

MedianOfThreeSecond(values, m1, m0, m2) ==
  IF EnumLess(values, m2, m1)
    THEN MedianOfThreeLast(EnumSwap(values, m2, m1), m1, m0, m2)
    ELSE values

MedianOfThree(values, m1, m0, m2) ==
  MedianOfThreeSecond(IF EnumLess(values, m1, m0)
                        THEN EnumSwap(values, m1, m0) ELSE values,
                      m1, m0, m2)

\* the loops of doPivot; pivot is the position lo
RECURSIVE PivotSkipLess(_, _, _, _)
PivotSkipLess(values, a, c, pivot) ==
  IF a < c /\ EnumLess(values, a, pivot)
    THEN PivotSkipLess(values, a + 1, c, pivot) ELSE a

RECURSIVE PivotAdvance(_, _, _, _)
PivotAdvance(values, b, c, pivot) ==
  IF b < c /\ ~EnumLess(values, pivot, b)
    THEN PivotAdvance(values, b + 1, c, pivot) ELSE b

RECURSIVE PivotRetreat(_, _, _, _)
PivotRetreat(values, b, c, pivot) ==
  IF b < c /\ EnumLess(values, pivot, c - 1)
    THEN PivotRetreat(values, b, c - 1, pivot) ELSE c

RECURSIVE PivotPartition(_, _, _, _)
PivotPartitionSwap(values, b, c, pivot) ==
  IF b >= c THEN [values |-> values, b |-> b, c |-> c]
  ELSE PivotPartition(EnumSwap(values, b, c - 1), b + 1, c - 1, pivot)

PivotPartitionRetreat(values, b, c, pivot) ==
  PivotPartitionSwap(values, b, PivotRetreat(values, b, c, pivot), pivot)

PivotPartition(values, b, c, pivot) ==
  PivotPartitionRetreat(values, PivotAdvance(values, b, c, pivot), c, pivot)

\* the loop that gathers the elements equal to the pivot ("protect")
RECURSIVE ProtectRetreat(_, _, _, _)
ProtectRetreat(values, a, b, pivot) ==
  IF a < b /\ ~EnumLess(values, b - 1, pivot)
    THEN ProtectRetreat(values, a, b - 1, pivot) ELSE b

RECURSIVE ProtectLoop(_, _, _, _)
ProtectSwap(values, a, b, pivot) ==
  IF a >= b THEN [values |-> values, b |-> b]
  ELSE ProtectLoop(EnumSwap(values, a, b - 1), a + 1, b - 1, pivot)

ProtectAdvance(values, a, b, pivot) ==
  ProtectSwap(values, PivotSkipLess(values, a, b, pivot), b, pivot)

ProtectLoop(values, a, b, pivot) ==
  ProtectAdvance(values, a, ProtectRetreat(values, a, b, pivot), pivot)

\* hi-c < ProtectBorder starts the protect loop
ProtectBorder == 5

\* doPivot is modelled for at most QuickSortMax elements: for these the
\* median of medians (more than 40 elements), the test of three points for
\* equality to the pivot (5 <= hi-c < (hi-lo)/4) and heapSort (maxDepth
\* rounds used up) are never reached
QuickSortMax == 20

\* "Swap pivot into middle": the result of doPivot
PivotPlaced(p, lo, c) ==
  [values |-> EnumSwap(p.values, lo, p.b - 1), mlo |-> p.b - 1, mhi |-> c]

PivotProtected(p, lo, hi, a) ==
  IF hi - p.c < ProtectBorder
    THEN PivotPlaced(ProtectLoop(p.values, a, p.b, lo), lo, p.c)
    ELSE PivotPlaced(p, lo, p.c)

PivotFrom(values, lo, hi, a) ==
  PivotProtected(PivotPartition(values, a, hi - 1, lo), lo, hi, a)

PivotChosen(values, lo, hi) ==
  PivotFrom(values, lo, hi, PivotSkipLess(values, lo + 1, hi - 1, lo))

doPivot(values, lo, hi) ==
  PivotChosen(MedianOfThree(values, lo, lo + (hi - lo) \div 2, hi - 1), lo, hi)

\* maxDepth(n): twice the number of bits of n
RECURSIVE BitLen(_)
BitLen(n) == IF n > 0 THEN 1 + BitLen(n \div 2) ELSE 0

maxDepth(n) == 2 * BitLen(n)

RECURSIVE quickSort(_, _, _, _)
quickSortSplit(p, a, b, depth) ==
  IF p.mlo - a < b - p.mhi
    THEN quickSort(quickSort(p.values, a, p.mlo, depth), p.mhi, b, depth)
    ELSE quickSort(quickSort(p.values, p.mhi, b, depth), a, p.mlo, depth)

quickSort(values, a, b, depth) ==
  CASE b - a > ShellSortMax /\ b - a <= QuickSortMax /\ depth > 0 ->
         quickSortSplit(doPivot(values, a, b), a, b, depth - 1)
    [] b - a > 1 /\ b - a <= ShellSortMax ->
         InsertionSort(ShellPass(values, a + ShellSortGap, b), a, a + 1, b)
    [] b - a <= 1 -> values

SortSort(values) == quickSort(values, 0, EnumLen(values), maxDepth(EnumLen(values)))

EnumValueLine(v, level) ==
  Line(indentLevel(level + 1),
       WithComment(v.Name \o " = " \o ToString(v.Tag) \o ";", v.Comment))

\* Enum.Write: the receiver is a copy whose Values share the caller's array, so
\* the sort reorders the caller's list: recv is the caller's enumeration after
\* the call
\* Enum.Write after the sort: the lines of the block, read from e.Values
EnumBlock(en, level) ==
  (IF en.Comment # ""
     THEN <<Line(indentLevel(level), "// " \o en.Comment)>> ELSE << >>)
  \o <<Line(indentLevel(level), "enum " \o en.Name \o " {")>>
  \o (IF en.AllowAlias
        THEN <<Line(indentLevel(level + 1), "option allow_alias = true;")>>
        ELSE << >>)
  \o [i \in 1 .. Len(en.Values) |-> EnumValueLine(en.Values[i], level)]
  \o <<Line(indentLevel(level), "}")>>

EnumSorted(en) == [en EXCEPT !.Values = SortSort(en.Values)]

EnumWrite(en, level) ==
  [text |-> EnumBlock(EnumSorted(en), level), err |-> nil, recv |-> EnumSorted(en)]

(***************************************************************************)
(* Mutually exclusive groups.                                              *)
(***************************************************************************)
OneOfValidate(o) ==
  IF o.Name = "" THEN "OneOf must have a non-empty name"
  ELSE IF Len(o.Fields) = 0 THEN "OneOf must have non-empty set of values"
  ELSE nil

\* the loop of OneOf.Write over o.Fields, from field i on
RECURSIVE OneOfFieldLines(_, _, _, _)
OneOfFieldLines(fields, level, i, v) ==
  IF i > Len(fields) THEN [text |-> v, err |-> nil]
  ELSE LET w == LeafWrite(fields[i]) IN
       IF w.err # nil THEN [text |-> << >>, err |-> w.err]
       ELSE OneOfFieldLines(fields, level, i + 1,
                            v \o <<Line(indentLevel(level + 1), w.text)>>)

OneOfWrite(o, level) ==
  LET r == OneOfFieldLines(o.Fields, level, 1,
             (IF o.Comment # ""
                THEN <<Line(indentLevel(level), "// " \o o.Comment)>> ELSE << >>)
             \o <<Line(indentLevel(level), "oneof " \o o.Name \o " {")>>)
  IN IF r.err # nil THEN [text |-> << >>, err |-> r.err, recv |-> o]
     ELSE [text |-> r.text \o <<Line(indentLevel(level), "}")>>, err |-> nil,
           recv |-> o]

(***************************************************************************)
(* Messages and the specification.                                         *)
(***************************************************************************)
\* the first error of a sequence of validation results, in order, or nil:
\* what a loop returning on the first failure returns
RECURSIVE FirstError(_)
FirstError(errs) ==
  IF errs = << >> THEN nil
  ELSE IF Head(errs) # nil THEN Head(errs)
  ELSE FirstError(Tail(errs))

RECURSIVE MessageValidate(_)
\* Message.Validate with the loop over m.Enums moved before the other loops
MessageValidateEnumsFirst(m) ==
  IF m.Name = "" THEN "Message name cannot be empty"
  ELSE FirstError(
         [i \in 1 .. Len(m.Enums) |-> EnumValidate(m.Enums[i])]
         \o [i \in 1 .. Len(m.Fields) |-> LeafValidate(m.Fields[i])]
         \o [i \in 1 .. Len(m.Messages) |-> MessageValidate(m.Messages[i])]
         \o [i \in 1 .. Len(m.ReservedValues) |-> LeafValidate(m.ReservedValues[i])])

MessageValidate(m) ==
  IF m.Name = "" THEN "Message name cannot be empty"
  ELSE FirstError(
         [i \in 1 .. Len(m.Fields) |-> LeafValidate(m.Fields[i])]
         \o [i \in 1 .. Len(m.Messages) |-> MessageValidate(m.Messages[i])]
         \o [i \in 1 .. Len(m.ReservedValues) |-> LeafValidate(m.ReservedValues[i])]
         \o [i \in 1 .. Len(m.Enums) |-> EnumValidate(m.Enums[i])])

\* Spec.Validate without the check of len(s.Messages)
SpecValidateAnyLength(sp) ==
  FirstError(
    [i \in 1 .. Len(sp.Messages) |-> MessageValidate(sp.Messages[i])]
    \o [i \in 1 .. Len(sp.Enums) |-> EnumValidate(sp.Enums[i])])

SpecValidate(sp) ==
  IF Len(sp.Messages) = 0 THEN "Spec must contain at least one message"
  ELSE FirstError(
         [i \in 1 .. Len(sp.Messages) |-> MessageValidate(sp.Messages[i])]
         \o [i \in 1 .. Len(sp.Enums) |-> EnumValidate(sp.Enums[i])])

\* the loop of Message.Write over reserved values or fields, from item i on:
\* one line per item, its text between prefix and suffix
RECURSIVE LeafLines(_, _, _, _, _, _)
LeafLines(items, level, prefix, suffix, i, buf) ==
  IF i > Len(items) THEN [text |-> buf, err |-> nil]
  ELSE LET w == LeafWrite(items[i]) IN
       IF w.err # nil THEN [text |-> << >>, err |-> w.err]
       ELSE LeafLines(items, level, prefix, suffix, i + 1,
                      buf \o <<Line(indentLevel(level + 1),
                                    prefix \o w.text \o suffix)>>)

\* return "", err
Failed(err, recv) == [text |-> << >>, err |-> err, recv |-> recv]

RECURSIVE MessageWrite(_, _)
RECURSIVE WriteBlocks(_, _, _, _, _, _, _)

\* v.Write(level) on an element of a list of messages, enumerations or groups
WriteBlock(kind, item, level) ==
  CASE kind = "Message" -> MessageWrite(item, level)
    [] kind = "Enum" -> EnumWrite(item, level)
    [] kind = "OneOf" -> OneOfWrite(item, level)

\* the body of a loop over blocks once item i returned w: the error ends
\* the loop, the text goes to the buffer between the lines before and after
BlockWritten(kind, items, level, before, after, i, buf, w) ==
  IF w.err # nil
    THEN [text |-> << >>, err |-> w.err, items |-> [items EXCEPT ![i] = w.recv]]
    ELSE WriteBlocks(kind, [items EXCEPT ![i] = w.recv], level, before, after,
                     i + 1, buf \o before \o w.text \o after)

\* a loop of Spec.Write or Message.Write over nested blocks of one kind, from
\* item i on; items are the caller's elements after the calls made so far
WriteBlocks(kind, items, level, before, after, i, buf) ==
  IF i > Len(items) THEN [text |-> buf, err |-> nil, items |-> items]
  ELSE BlockWritten(kind, items, level, before, after, i, buf,
                    WriteBlock(kind, items[i], level))

\* the state of a Write after a loop over the blocks of one attribute
BlocksStored(recv, attribute, r) ==
  [text |-> r.text, err |-> r.err, recv |-> [recv EXCEPT ![attribute] = r.items]]

\* the state of a Message.Write after a loop over leaves and its blank line
LinesStored(recv, r) ==
  IF r.err # nil THEN Failed(r.err, recv)
  ELSE [text |-> r.text \o <<BlankLine>>, err |-> nil, recv |-> recv]

\* Message.Write: the comment and the header
MessageHeader(m, level) ==
  (IF m.Comment # "" THEN <<Line(indentLevel(level), "// " \o m.Comment)>> ELSE << >>)
  \o <<Line(indentLevel(level), "message " \o m.Name \o " {")>>

\* Message.Write: NESTED MESSAGE TYPES
NestedWritten(m, level) ==
  BlocksStored(m, "Messages",
               WriteBlocks("Message", m.Messages, level + 1, << >>, <<BlankLine>>,
                           1, MessageHeader(m, level)))

\* Message.Write: ENUMS
EnumsWritten(st, level) ==
  IF st.err # nil THEN st
  ELSE BlocksStored(st.recv, "Enums",
                    WriteBlocks("Enum", st.recv.Enums, level + 1, << >>,
                                <<BlankLine>>, 1, st.text))

\* Message.Write: RESERVED TAGS
ReservedWritten(st, level) ==
  IF st.err # nil THEN st
  ELSE IF Len(st.recv.ReservedValues) > 0
    THEN LinesStored(st.recv,
                     LeafLines(st.recv.ReservedValues, level, "reserved ", ";", 1,
                               st.text))
  ELSE st

\* the FIELDS part of Message.Write without the test of len(m.Fields)
FieldsWrittenAlways(st, level) ==
  IF st.err # nil THEN st
  ELSE LinesStored(st.recv, LeafLines(st.recv.Fields, level, "", "", 1, st.text))

\* Message.Write: FIELDS
FieldsWritten(st, level) ==
  IF st.err # nil THEN st
  ELSE IF Len(st.recv.Fields) > 0
    THEN LinesStored(st.recv, LeafLines(st.recv.Fields, level, "", "", 1, st.text))
  ELSE st

\* Message.Write: ONE-OF FIELDS
OneOfsWritten(st, level) ==
  IF st.err # nil THEN st
  ELSE BlocksStored(st.recv, "OneOfs",
                    WriteBlocks("OneOf", st.recv.OneOfs, level + 1, << >>, << >>, 1,
                                st.text))

\* Message.Write: the closing brace
MessageClosed(st, level) ==
  IF st.err # nil THEN st
  ELSE [st EXCEPT !.text = st.text \o <<Line(indentLevel(level), "}")>>]

\* Message.Write; recv is the caller's message after the call
MessageWrite(m, level) ==
  IF MessageValidate(m) # nil THEN Failed(MessageValidate(m), m)
  ELSE MessageClosed(
         OneOfsWritten(
           FieldsWritten(
             ReservedWritten(EnumsWritten(NestedWritten(m, level), level), level),
             level),
           level),
         level)

\* the lines that open Spec.Write with the java_package option written
\* before the package
SpecHeaderJavaFirst(sp) ==
  <<Line(0, "syntax = \"proto3\";")>>
  \o (IF sp.JavaPackage # ""
        THEN <<Line(0, "option java_package = \"" \o sp.JavaPackage \o "\";")>>
        ELSE << >>)
  \o (IF sp.Package # "" THEN <<Line(0, "package " \o sp.Package \o ";")>> ELSE << >>)
  \o [i \in 1 .. Len(sp.Imports) |-> Line(0, "import \"" \o sp.Imports[i] \o "\";")]

\* Spec.Write: the syntax, package, java_package and import lines
SpecHeader(sp) ==
  <<Line(0, "syntax = \"proto3\";")>>
  \o (IF sp.Package # "" THEN <<Line(0, "package " \o sp.Package \o ";")>> ELSE << >>)
  \o (IF sp.JavaPackage # ""
        THEN <<Line(0, "option java_package = \"" \o sp.JavaPackage \o "\";")>>
        ELSE << >>)
  \o [i \in 1 .. Len(sp.Imports) |-> Line(0, "import \"" \o sp.Imports[i] \o "\";")]

\* Spec.Write: the loop over s.Enums
SpecEnumsWritten(sp) ==
  BlocksStored(sp, "Enums",
               WriteBlocks("Enum", sp.Enums, 0, <<BlankLine>>, << >>, 1,
                           SpecHeader(sp)))

\* Spec.Write: the loop over s.Messages
SpecMessagesWritten(st) ==
  IF st.err # nil THEN st
  ELSE BlocksStored(st.recv, "Messages",
                    WriteBlocks("Message", st.recv.Messages, 0, <<BlankLine>>,
                                << >>, 1, st.text))

\* Spec.Write without the call of s.Validate that opens it
SpecWriteUnguarded(sp) == SpecMessagesWritten(SpecEnumsWritten(sp))

\* Spec.Write; recv is the caller's specification after the call
SpecWrite(sp) ==
  IF SpecValidate(sp) # nil THEN Failed(SpecValidate(sp), sp)
  ELSE SpecMessagesWritten(SpecEnumsWritten(sp))

(***************************************************************************)
(* The documents checked: the specification of ExampleSpec_Write and every *)
(* document that departs from it in at most MaxEdits of the places below.  *)
(***************************************************************************)
Country ==
  Enum("Country", <<EnumValue("CA", 1, "Canada"), EnumValue("US", 0, ""),
                    EnumValue("MX", 3, "Mexico"), EnumValue("GB", 2, "Great Britain")>>,
       FALSE, "Country code")

PlaybackState ==
  Enum("PlaybackState", <<EnumValue("Playing", 1, ""), EnumValue("Waiting", 0, ""),
                          EnumValue("Stopped", 2, ""), EnumValue("Started", 1, "")>>,
       TRUE, "")

\* PlaybackState without the alias option: Started reuses the tag of Playing
Clashing == [PlaybackState EXCEPT !.AllowAlias = FALSE]

\* an enumeration too long for the ShellSort pass alone: its tags alternate
\* between 0 and 1 and the alias option allows that
LongLen == ShellSortMax + 1

Status ==
  Enum("Status",
       [i \in 1 .. LongLen |-> EnumValue("S" \o ToString(i), (i + 1) % 2, "")],
       TRUE, "")

TestOneOf ==
  OneOf("test_oneof",
        <<ScalarField("name", 24, None, "Name", StringType),
          CustomField("sub_message", 25, None, "Sub-Message", "Event")>>,
        "Can have a name or sub-message, but not both")

ExampleReserved == <<ReservedTagValue(1), ReservedTagRange(6, 9), ReservedName("old")>>

EventFields ==
  <<CustomField("Habitat", 10, Repeated, "What am I?", "string"),
    ScalarField("Continent", 11, None, "Where am I?", StringType),
    MapField("LanguageMap", 12, None, "Super essential", StringType, StringType)>>

BeaconFields ==
  <<CustomField("Habitat", 20, None, "What am I?", "string"),
    ScalarField("Continent", 21, Repeated, "Where am I?", StringType),
    MapField("LanguageMap", 22, None, "Super essential", StringType, StringType),
    CustomMapField("CustomMap", 23, None, "", StringType, "Event")>>

\* a message of the third nesting level
Inner(name) ==
  Message(name, "", << >>, << >>, <<ScalarField("id", 1, None, "", Int32Type)>>,
          << >>, <<Country>>)

\* the places of a message named p and what an edit puts there
EditsOfMessage(p) ==
  {p \o ".Name:empty", p \o ".Comment:other", p \o ".Messages:other",
   p \o ".Messages:unnamed", p \o ".Reserved:none", p \o ".Reserved:unnamed",
   p \o ".Reserved:range", p \o ".Fields:none", p \o ".Fields:unnamed",
   p \o ".Fields:key", p \o ".Fields:repeated", p \o ".Fields:both", p \o ".OneOfs:other",
   p \o ".OneOfs:unnamed", p \o ".OneOfs:empty", p \o ".OneOfs:member",
   p \o ".Enums:other", p \o ".Enums:unnamed", p \o ".Enums:empty",
   p \o ".Enums:clash"}

Edits ==
  {"Package:empty", "JavaPackage:set", "Imports:two", "Enums:one", "Enums:clash",
   "Enums:long", "Messages:none", "Messages:two"}
    \cup EditsOfMessage("Beacon") \cup EditsOfMessage("Event")

\* the message named p after the edits V; the arguments are its parts in
\* ExampleSpec_Write
EditedMessage(p, V, comment, messages, fields, oneofs, enums) ==
  Message(
    IF (p \o ".Name:empty") \in V THEN "" ELSE p,
    IF (p \o ".Comment:other") \in V THEN (IF comment = "" THEN "A comment" ELSE "")
    ELSE comment,
    CASE (p \o ".Messages:unnamed") \in V -> messages \o <<Inner("")>>
      [] (p \o ".Messages:other") \in V ->
           (IF messages = << >> THEN <<Inner("Inner")>> ELSE << >>)
      [] OTHER -> messages,
    CASE (p \o ".Reserved:none") \in V -> << >>
      [] (p \o ".Reserved:unnamed") \in V -> ExampleReserved \o <<ReservedName("")>>
      [] (p \o ".Reserved:range") \in V ->
           ExampleReserved \o <<ReservedTagRange(9, 6)>>
      [] OTHER -> ExampleReserved,
    CASE (p \o ".Fields:none") \in V -> << >>
      [] (p \o ".Fields:unnamed") \in V ->
           fields \o <<ScalarField("", 30, None, "", BoolType)>>
      [] (p \o ".Fields:both") \in V ->
           fields \o <<MapField("ByWeight", 31, None, "", DoubleType, StringType),
                       ScalarField("", 30, None, "", BoolType)>>
      [] (p \o ".Fields:key") \in V ->
           fields \o <<MapField("ByWeight", 31, None, "", DoubleType, StringType)>>
      [] (p \o ".Fields:repeated") \in V ->
           fields \o <<CustomMapField("Events", 32, Repeated, "", Int64Type, "Event")>>
      [] OTHER -> fields,
    CASE (p \o ".OneOfs:unnamed") \in V -> oneofs \o <<[TestOneOf EXCEPT !.Name = ""]>>
      [] (p \o ".OneOfs:empty") \in V -> oneofs \o <<OneOf("nothing", << >>, "")>>
      [] (p \o ".OneOfs:member") \in V ->
           oneofs \o <<OneOf("choice", <<ScalarField("", 33, None, "", StringType)>>,
                             "")>>
      [] (p \o ".OneOfs:other") \in V ->
           (IF oneofs = << >> THEN <<TestOneOf>> ELSE << >>)
      [] OTHER -> oneofs,
    CASE (p \o ".Enums:unnamed") \in V -> enums \o <<[Country EXCEPT !.Name = ""]>>
      [] (p \o ".Enums:empty") \in V -> enums \o <<Enum("Nothing", << >>, FALSE, "")>>
      [] (p \o ".Enums:clash") \in V -> enums \o <<Clashing>>
      [] (p \o ".Enums:other") \in V ->
           (IF enums = << >> THEN <<PlaybackState>> ELSE << >>)
      [] OTHER -> enums)

\* the specification of ExampleSpec_Write after the edits V
EditedSpec(V) ==
  LET Event == EditedMessage("Event", V, "", << >>, EventFields, << >>, << >>)
      Beacon == EditedMessage("Beacon", V,
                              "Beacon Message containing event information",
                              <<Event>>, BeaconFields, <<TestOneOf>>,
                              <<Country, PlaybackState>>)
  IN [Package |-> IF "Package:empty" \in V THEN "" ELSE "foo",
      JavaPackage |-> IF "JavaPackage:set" \in V THEN "com.mux.foo" ELSE "",
      Imports |-> IF "Imports:two" \in V THEN <<"a.proto", "b.proto">> ELSE << >>,
      Messages |-> CASE "Messages:none" \in V -> << >>
                     [] "Messages:two" \in V -> <<Beacon, Inner("Other")>>
                     [] OTHER -> <<Beacon>>,
      Enums |-> CASE "Enums:clash" \in V -> <<Clashing>>
                  [] "Enums:one" \in V -> <<PlaybackState>>
                  [] "Enums:long" \in V -> <<Country, Status>>
                  [] OTHER -> << >>]

\* the sets of at most k edits
RECURSIVE EditSets(_)
EditSets(k) ==
  IF k = 0 THEN {{}}
  ELSE LET smaller == EditSets(k - 1)
       IN smaller \cup {V \cup {x} : V \in smaller, x \in Edits}

Documents == {EditedSpec(V) : V \in EditSets(MaxEdits)}

(***************************************************************************)
(* A caller holding one specification: any sequence of at most MaxCalls    *)
(* calls of Validate and Write. calls records each call made: the          *)
(* operation, the receiver before the call, and what the call returned.    *)
(***************************************************************************)
Call(op, recv, text, err) == [op |-> op, recv |-> recv, text |-> text, err |-> err]

Init ==
  /\ s \in Documents
  /\ e = NoValue
  /\ leaf = NoValue
  /\ block = NoValue
  /\ heap = << >>
  /\ writers = << >>
  /\ calls = << >>

CallSpecValidate ==
  /\ s # NoValue
  /\ Len(calls) < MaxCalls
  /\ calls' = Append(calls, Call("Validate", s, << >>, SpecValidate(s)))
  /\ UNCHANGED <<s, e, leaf, block, heap, writers>>

CallSpecWrite ==
  /\ s # NoValue
  /\ Len(calls) < MaxCalls
  /\ LET w == SpecWrite(s)
     IN /\ s' = w.recv
        /\ calls' = Append(calls, Call("Write", s, w.text, w.err))
  /\ UNCHANGED <<e, leaf, block, heap, writers>>

Next == CallSpecValidate \/ CallSpecWrite

Spec == Init /\ [][Next]_vars

(***************************************************************************)
(* A caller holding one enumeration: calls of Enum.Validate and of         *)
(* Enum.Write at level 0. The value at position i is named by its          *)
(* position, so that the lines of a rendering tell which value each one    *)
(* came from.                                                              *)
(***************************************************************************)
ValueName(i) == "V" \o ToString(i)

EnumOfTags(name, tags, alias) ==
  Enum(name, [i \in 1 .. Len(tags) |-> EnumValue(ValueName(i), tags[i], "")], alias, "")

TagLists == UNION {[1 .. n -> 0 .. MaxEnumTag] : n \in 0 .. MaxValues}

Enumerations ==
  {EnumOfTags(name, tags, alias) :
     name \in {"", "State"}, tags \in TagLists, alias \in BOOLEAN}

InitEnum ==
  /\ s = NoValue
  /\ e \in Enumerations
  /\ leaf = NoValue
  /\ block = NoValue
  /\ heap = << >>
  /\ writers = << >>
  /\ calls = << >>

CallEnumValidate ==
  /\ e # NoValue
  /\ Len(calls) < MaxDirectCalls
  /\ calls' = Append(calls, Call("Validate", e, << >>, EnumValidate(e)))
  /\ UNCHANGED <<s, e, leaf, block, heap, writers>>

CallEnumWrite ==
  /\ e # NoValue
  /\ Len(calls) < MaxDirectCalls
  /\ LET w == EnumWrite(e, 0)
     IN /\ e' = w.recv
        /\ calls' = Append(calls, Call("Write", e, w.text, w.err))
  /\ UNCHANGED <<s, leaf, block, heap, writers>>

NextEnum == CallEnumValidate \/ CallEnumWrite

SpecEnum == InitEnum /\ [][NextEnum]_vars

(***************************************************************************)
(* A caller holding one leaf: a map field of either variant, or a reserved *)
(* tag range whose bounds the caller converts from integers.               *)
(***************************************************************************)
MapFields ==
  {MapField(name, 12, rule, "", key, StringType) :
     name \in {"", "LanguageMap"}, rule \in {None, Repeated}, key \in UInt8}
    \cup {CustomMapField(name, 23, rule, "", key, "Event") :
            name \in {"", "CustomMap"}, rule \in {None, Repeated}, key \in UInt8}

\* the lower bounds a caller converts: every tag, and the integer -1
TagRanges ==
  {ReservedTagRange(TagType(lower), TagType(upper)) :
     lower \in {-1} \cup UInt8, upper \in UInt8}

InitLeaf ==
  /\ s = NoValue
  /\ e = NoValue
  /\ leaf \in MapFields \cup TagRanges
  /\ block = NoValue
  /\ heap = << >>
  /\ writers = << >>
  /\ calls = << >>

CallLeafValidate ==
  /\ leaf # NoValue
  /\ Len(calls) < MaxDirectCalls
  /\ calls' = Append(calls, Call("Validate", leaf, << >>, LeafValidate(leaf)))
  /\ UNCHANGED <<s, e, leaf, block, heap, writers>>

CallLeafWrite ==
  /\ leaf # NoValue
  /\ Len(calls) < MaxDirectCalls
  /\ LET w == LeafWrite(leaf)
     IN calls' = Append(calls, Call("Write", leaf, <<Line(0, w.text)>>, w.err))
  /\ UNCHANGED <<s, e, leaf, block, heap, writers>>

NextLeaf == CallLeafValidate \/ CallLeafWrite

SpecLeaf == InitLeaf /\ [][NextLeaf]_vars

(***************************************************************************)
(* The rules of the entities, stated on the tree.                          *)
(***************************************************************************)
\* the scalar types that are integers
IntegralTypes ==
  {Int32Type, Int64Type, UInt32Type, UInt64Type, SInt32Type, SInt64Type,
   Fixed32Type, Fixed64Type, SFixed32Type, SFixed64Type}

IsMapField(v) == v.kind \in {"MapField", "CustomMapField"}

LeafSound(v) ==
  CASE v.kind \in {"ScalarField", "CustomField", "ReservedName"} -> v.Name # ""
    [] IsMapField(v) ->
         /\ v.Name # ""
         /\ v.KeyTyping \in IntegralTypes \cup {StringType}
         /\ v.Rule # Repeated
    [] v.kind = "ReservedTagValue" -> TRUE
    [] v.kind = "ReservedTagRange" -> v.LowerTag < v.UpperTag

SharesTag(values) ==
  \E i, j \in DOMAIN values : i # j /\ values[i].Tag = values[j].Tag

EnumSound(en) ==
  /\ en.Name # ""
  /\ Len(en.Values) > 0
  /\ ~en.AllowAlias => ~SharesTag(en.Values)

OneOfSound(o) ==
  /\ o.Name # ""
  /\ Len(o.Fields) > 0
  /\ \A i \in DOMAIN o.Fields : LeafSound(o.Fields[i])

\* the message and all it contains keep their rules; the groups are looked
\* at only if groups is TRUE
RECURSIVE MessageSound(_, _)
MessageSound(m, groups) ==
  /\ m.Name # ""
  /\ \A i \in DOMAIN m.Fields : LeafSound(m.Fields[i])
  /\ \A i \in DOMAIN m.ReservedValues : LeafSound(m.ReservedValues[i])
  /\ \A i \in DOMAIN m.Enums : EnumSound(m.Enums[i])
  /\ groups => \A i \in DOMAIN m.OneOfs : OneOfSound(m.OneOfs[i])
  /\ \A i \in DOMAIN m.Messages : MessageSound(m.Messages[i], groups)

SpecSound(sp, groups) ==
  /\ Len(sp.Messages) >= 1
  /\ \A i \in DOMAIN sp.Messages : MessageSound(sp.Messages[i], groups)
  /\ \A i \in DOMAIN sp.Enums : EnumSound(sp.Enums[i])

\* every group of the message, at every depth, keeps its rules
RECURSIVE GroupsSound(_)
GroupsSound(m) ==
  /\ \A i \in DOMAIN m.OneOfs : OneOfSound(m.OneOfs[i])
  /\ \A i \in DOMAIN m.Messages : GroupsSound(m.Messages[i])

\* the number of blocks (messages, enumerations, groups) a tree holds
RECURSIVE BlocksOfMessage(_)
RECURSIVE BlocksOfMessages(_)
BlocksOfMessage(m) ==
  1 + Len(m.Enums) + Len(m.OneOfs) + BlocksOfMessages(m.Messages)

BlocksOfMessages(msgs) ==
  IF msgs = << >> THEN 0
  ELSE BlocksOfMessage(Head(msgs)) + BlocksOfMessages(Tail(msgs))

\* a text that opens with the syntax line, closes every block of the tree,
\* and ends with the closing brace of the last top-level message
CompleteText(text, sp) ==
  /\ Len(text) >= 2
  /\ text[1] = Line(0, "syntax = \"proto3\";")
  /\ text[Len(text)] = Line(0, "}")
  /\ Cardinality({i \in DOMAIN text : text[i].body = "}"})
       = Len(sp.Enums) + BlocksOfMessages(sp.Messages)

WriteCalls == {i \in DOMAIN calls : calls[i].op = "Write"}

ValidateCalls == {i \in DOMAIN calls : calls[i].op = "Validate"}

\* the call just made, if any. Every call is the last one in the state that
\* follows it, so a statement on the last call of every reachable state is a
\* statement on every call.
LastCall == {i \in DOMAIN calls : i = Len(calls)}

LastWrite == LastCall \cap WriteCalls

LastValidate == LastCall \cap ValidateCalls

(***************************************************************************)
(* Claims on the specification (Spec).                                     *)
(***************************************************************************)
\* C1: Spec.Write on a Document whose top-level message list is empty fails
\* with an error; on a Document with at least one message in which every
\* entity keeps its rule it succeeds and returns non-empty text.
C1_EmptyFailsSoundSucceeds ==
  \A i \in LastWrite :
    /\ Len(calls[i].recv.Messages) = 0 => calls[i].err # nil
    /\ SpecSound(calls[i].recv, TRUE) =>
         calls[i].err = nil /\ calls[i].text # << >>

C1_Witness ==
  \E i \in WriteCalls :
    /\ SpecSound(calls[i].recv, TRUE)
    /\ Len(calls[i].recv.Messages[1].Messages) > 0
    /\ calls[i].err = nil
    /\ Len(calls[i].text) > 0

\* C2: Spec.Write returns either the complete text and no error, or the
\* empty text and an error; if any entity a validation of the render visits
\* (a message, field, reserved declaration or enumeration at any depth, or
\* the message list) breaks its rule, it returns the empty text and an error.
C2_TextOrError ==
  \A i \in LastWrite :
    /\ \/ calls[i].err # nil /\ calls[i].text = << >>
       \/ calls[i].err = nil /\ CompleteText(calls[i].text, calls[i].recv)
    /\ ~SpecSound(calls[i].recv, FALSE) =>
         calls[i].err # nil /\ calls[i].text = << >>

\* a failed render whose only defect lies two levels down
C2_Witness ==
  \E i \in WriteCalls :
    LET sp == calls[i].recv IN
    /\ Len(sp.Messages) > 0
    /\ Len(sp.Messages[1].Messages) > 0
    /\ ~MessageSound(sp.Messages[1].Messages[1], FALSE)
    /\ MessageSound([sp.Messages[1] EXCEPT !.Messages = << >>], FALSE)
    /\ calls[i].err # nil
    /\ calls[i].text = << >>

\* C10: whenever Spec.Validate or Spec.Write succeeds, every group (OneOf) of
\* every message at every depth has a non-empty name, at least one member
\* field, and member fields that each pass their own Validate.
C10_GroupsChecked ==
  \A i \in LastCall :
    calls[i].err = nil =>
      \A j \in DOMAIN calls[i].recv.Messages :
        GroupsSound(calls[i].recv.Messages[j])

(***************************************************************************)
(* Claims on one enumeration (SpecEnum).                                   *)
(***************************************************************************)
\* the text of the line of a value without comment
ValueLineBody(v) == v.Name \o " = " \o ToString(v.Tag) \o ";"

\* the positions in values of the value a line shows
OriginsOfLine(l, values) == {k \in DOMAIN values : l.body = ValueLineBody(values[k])}

\* the lines of a rendering that show a value of the receiver, in order
ValueLines(c) ==
  SelectSeq(c.text, LAMBDA l : OriginsOfLine(l, c.recv.Values) # {})

\* the value each value line shows
ShownValues(c) ==
  LET lines == ValueLines(c)
  IN [k \in DOMAIN lines |->
        c.recv.Values[CHOOSE o \in OriginsOfLine(lines[k], c.recv.Values) : TRUE]]

\* the position in the receiver's list of the value each value line shows
ShownOrigins(c) ==
  LET lines == ValueLines(c)
  IN [k \in DOMAIN lines |->
        CHOOSE o \in OriginsOfLine(lines[k], c.recv.Values) : TRUE]

\* C3: Enum.Validate on an enumeration with a non-empty name in which two
\* values share a tag fails when AllowAlias is false and succeeds when
\* AllowAlias is true, whatever the order of the values.
C3_AliasDecidesSharedTags ==
  \A i \in LastValidate :
    LET en == calls[i].recv IN
    (en.Name # "" /\ SharesTag(en.Values)) =>
      (calls[i].err = nil <=> en.AllowAlias)

\* a rejected enumeration whose values of equal tag are not neighbours
C3_Witness ==
  \E i \in ValidateCalls :
    LET en == calls[i].recv IN
    /\ en.Name # ""
    /\ ~en.AllowAlias
    /\ Len(en.Values) = 3
    /\ en.Values[1].Tag = en.Values[3].Tag
    /\ en.Values[1].Tag # en.Values[2].Tag
    /\ calls[i].err # nil

\* C4: the value lines Enum.Write emits show every value of the enumeration
\* once, in non-decreasing tag order, for every input order of the values.
C4_ValueLinesAscend ==
  \A i \in LastWrite :
    LET shown == ShownValues(calls[i]) IN
    /\ Len(shown) = Len(calls[i].recv.Values)
    /\ \A k \in 1 .. Len(shown) - 1 : shown[k].Tag <= shown[k + 1].Tag

\* a rendering of a list that was not in tag order, long enough for the
\* ShellSort pass to act
C4_Witness ==
  \E i \in WriteCalls :
    LET en == calls[i].recv IN
    /\ Len(en.Values) > ShellSortGap
    /\ en.Values[1].Tag > en.Values[Len(en.Values)].Tag
    /\ Len(ValueLines(calls[i])) = Len(en.Values)

\* C5: Enum.Write on an alias-allowed enumeration emits the values of equal
\* tag in the relative order they had in the input list, for every length.
C5_EqualTagsKeepOrder ==
  \A i \in LastWrite :
    (calls[i].recv.AllowAlias /\ EnumSound(calls[i].recv)) =>
      LET shown == ShownValues(calls[i])
          origin == ShownOrigins(calls[i])
      IN \A k, l \in DOMAIN shown :
           (k < l /\ shown[k].Tag = shown[l].Tag) => origin[k] < origin[l]

(***************************************************************************)
(* Claims on one leaf (SpecLeaf).                                          *)
(***************************************************************************)
\* C6: Validate of a map field of either variant, with a non-empty name and
\* without the repeated rule, fails when the key type is DoubleType, FloatType
\* or BytesType and succeeds when it is an integral scalar type or StringType.
C6_MapKeyTypes ==
  \A i \in LastValidate :
    LET f == calls[i].recv IN
    (IsMapField(f) /\ f.Name # "" /\ f.Rule # Repeated) =>
      /\ f.KeyTyping \in {DoubleType, FloatType, BytesType} => calls[i].err # nil
      /\ f.KeyTyping \in IntegralTypes \cup {StringType} => calls[i].err = nil

C6_Witness ==
  \E i \in ValidateCalls :
    LET f == calls[i].recv IN
    /\ f.kind = "CustomMapField"
    /\ f.Name # ""
    /\ f.Rule # Repeated
    /\ f.KeyTyping = BytesType
    /\ calls[i].err # nil

\* C7: a map field of either variant passes Validate only if its key type is
\* an integral scalar type or the string type, for every FieldType value
\* 0..255. (BoolType, which protobuf admits as a key, is counted with them.)
C7_OnlyLegalKeysPass ==
  \A i \in LastValidate :
    LET f == calls[i].recv IN
    (IsMapField(f) /\ calls[i].err = nil) =>
      f.KeyTyping \in IntegralTypes \cup {BoolType, StringType}

\* C8: ReservedTagRange.Validate fails when lower >= upper and succeeds when
\* lower < upper with lower >= 0; the range from 0 to 1 is accepted.
C8_RangeBounds ==
  \A i \in LastValidate :
    LET r == calls[i].recv IN
    r.kind = "ReservedTagRange" =>
      /\ r.LowerTag >= r.UpperTag => calls[i].err # nil
      /\ (r.LowerTag < r.UpperTag /\ r.LowerTag >= 0) => calls[i].err = nil

C8_Witness ==
  \E i \in ValidateCalls :
    /\ calls[i].recv = ReservedTagRange(0, 1)
    /\ calls[i].err = nil

\* C9: a ReservedTagRange whose lower bound is the conversion of -1 to
\* TagType (-1 mod 2^8) is rejected by Validate for every upper bound.
C9_MinusOneRejected ==
  \A i \in LastValidate :
    LET r == calls[i].recv IN
    (r.kind = "ReservedTagRange" /\ r.LowerTag = TagType(-1)) =>
      calls[i].err # nil

\* the rejected range from -1 to the largest tag
C9_Witness ==
  \E i \in ValidateCalls :
    /\ calls[i].recv = ReservedTagRange(TagType(-1), 2 ^ UInt8Bits - 1)
    /\ calls[i].err # nil

(***************************************************************************)
(* Claims on whole documents (Spec), continued.                            *)
(***************************************************************************)
\* the number of leaves of the list that break their rule
Unsound(items) == Cardinality({i \in DOMAIN items : ~LeafSound(items[i])})

\* the number of member fields of the groups that break the rule of a field
RECURSIVE MemberDefects(_)
MemberDefects(oneofs) ==
  IF oneofs = << >> THEN 0
  ELSE Unsound(Head(oneofs).Fields) + MemberDefects(Tail(oneofs))

\* the number of messages, fields, reserved values and enumerations of the
\* messages, at every depth, that break their own rule
RECURSIVE ListedDefects(_)
ListedDefects(msgs) ==
  IF msgs = << >> THEN 0
  ELSE (IF Head(msgs).Name = "" THEN 1 ELSE 0)
         + Unsound(Head(msgs).Fields)
         + Unsound(Head(msgs).ReservedValues)
         + Cardinality({i \in DOMAIN Head(msgs).Enums : ~EnumSound(Head(msgs).Enums[i])})
         + MemberDefects(Head(msgs).OneOfs)
         + ListedDefects(Head(msgs).Messages)
         + ListedDefects(Tail(msgs))

\* the number of groups of the messages, at every depth, that break the rule
\* of a group itself: a name and at least one member
RECURSIVE GroupDefects(_)
GroupDefects(msgs) ==
  IF msgs = << >> THEN 0
  ELSE Cardinality({i \in DOMAIN Head(msgs).OneOfs :
                      Head(msgs).OneOfs[i].Name = ""
                        \/ Len(Head(msgs).OneOfs[i].Fields) = 0})
         + GroupDefects(Head(msgs).Messages)
         + GroupDefects(Tail(msgs))

\* exactly one entity of the document breaks its rule, and it is a message, a
\* field, a reserved value or an enumeration
SingleDefect(sp) ==
  /\ Len(sp.Messages) >= 1
  /\ GroupDefects(sp.Messages) = 0
  /\ ListedDefects(sp.Messages)
       + Cardinality({i \in DOMAIN sp.Enums : ~EnumSound(sp.Enums[i])}) = 1

\* C11: when exactly one entity of the Document tree breaks its own rule (a
\* message without a name at any depth, a field without a name, a map field
\* with an illegal key type or the repeated rule, a reserved name that is
\* empty, a reserved range that is not ascending, an enumeration without a
\* name, without values, or with shared tags and no alias option), both
\* Spec.Validate and Spec.Write return an error.
C11_SingleDefectSurfaces ==
  \A i \in LastCall : SingleDefect(calls[i].recv) => calls[i].err # nil

\* C12: two Spec.Write calls in a row on the same valid Document return the
\* same text, enumerations with shared tags included.
C12_SecondWriteSameText ==
  \A i \in LastWrite :
    (i - 1) \in WriteCalls /\ calls[i - 1].err = nil
      => calls[i].err = nil /\ calls[i].text = calls[i - 1].text

\* the lines of a text that are not indented and not blank
TopLines(text) == SelectSeq(text, LAMBDA l : l.indent = 0 /\ l.body # "")

\* the lines a document opens with: syntax, package, java_package, imports
OpeningLines(sp) ==
  <<Line(0, "syntax = \"proto3\";")>>
  \o (IF sp.Package = "" THEN << >> ELSE <<Line(0, "package " \o sp.Package \o ";")>>)
  \o (IF sp.JavaPackage = "" THEN << >>
      ELSE <<Line(0, "option java_package = \"" \o sp.JavaPackage \o "\";")>>)
  \o [i \in 1 .. Len(sp.Imports) |-> Line(0, "import \"" \o sp.Imports[i] \o "\";")]

\* the first line of a block: its comment if it has one, else its header
BlockStart(word, x) ==
  IF x.Comment # "" THEN Line(0, "// " \o x.Comment)
  ELSE Line(0, word \o " " \o x.Name \o " {")

\* the unindented lines of the blocks of a list: comment, header, closing brace
RECURSIVE BlockEnds(_, _)
BlockEnds(word, items) ==
  IF items = << >> THEN << >>
  ELSE (IF Head(items).Comment # "" THEN <<BlockStart(word, Head(items))>> ELSE << >>)
         \o <<Line(0, word \o " " \o Head(items).Name \o " {"), Line(0, "}")>>
         \o BlockEnds(word, Tail(items))

TopBlockStarts(sp) ==
  {BlockStart("enum", sp.Enums[i]) : i \in DOMAIN sp.Enums}
    \cup {BlockStart("message", sp.Messages[i]) : i \in DOMAIN sp.Messages}

\* C13: the text of a Document is, in this order: the syntax line; the package
\* line exactly when Package is set; the java_package line exactly when
\* JavaPackage is set; one import line per import in input order; every
\* top-level enumeration block in input order, each preceded by a blank line;
\* every top-level message block in input order, each preceded by a blank
\* line.
C13_DocumentOrder ==
  \A i \in LastWrite :
    calls[i].err = nil =>
      /\ TopLines(calls[i].text)
           = OpeningLines(calls[i].recv)
               \o BlockEnds("enum", calls[i].recv.Enums)
               \o BlockEnds("message", calls[i].recv.Messages)
      /\ SubSeq(calls[i].text, 1, Len(OpeningLines(calls[i].recv)))
           = OpeningLines(calls[i].recv)
      /\ \A k \in DOMAIN calls[i].text :
           calls[i].text[k] \in TopBlockStarts(calls[i].recv)
             => k > 1 /\ calls[i].text[k - 1] = BlankLine

C13_Witness ==
  \E i \in WriteCalls :
    /\ calls[i].err = nil
    /\ calls[i].recv.Package # "" /\ calls[i].recv.JavaPackage # ""
    /\ Len(calls[i].recv.Enums) > 1 /\ Len(calls[i].recv.Messages) > 0

Ascending(values) ==
  \A k \in 1 .. (Len(values) - 1) : values[k].Tag <= values[k + 1].Tag

\* how often each value occurs in the list
Occurrences(values) ==
  [v \in {values[k] : k \in DOMAIN values}
     |-> Cardinality({k \in DOMAIN values : values[k] = v})]

\* the tree with every value list replaced by the count of its values: what
\* is left of a tree when the order inside the value lists is forgotten
Unordered(en) == [en EXCEPT !.Values = Occurrences(en.Values)]

RECURSIVE UnorderedMessage(_)
UnorderedMessage(m) ==
  [m EXCEPT !.Enums = [k \in DOMAIN m.Enums |-> Unordered(m.Enums[k])],
            !.Messages = [k \in DOMAIN m.Messages |-> UnorderedMessage(m.Messages[k])]]

UnorderedSpec(sp) ==
  [sp EXCEPT !.Enums = [k \in DOMAIN sp.Enums |-> Unordered(sp.Enums[k])],
             !.Messages = [k \in DOMAIN sp.Messages |-> UnorderedMessage(sp.Messages[k])]]

\* every value list of the message, at every depth, ascends by tag
RECURSIVE MessageAscending(_)
MessageAscending(m) ==
  /\ \A k \in DOMAIN m.Enums : Ascending(m.Enums[k].Values)
  /\ \A k \in DOMAIN m.Messages : MessageAscending(m.Messages[k])

SpecAscending(sp) ==
  /\ \A k \in DOMAIN sp.Enums : Ascending(sp.Enums[k].Values)
  /\ \A k \in DOMAIN sp.Messages : MessageAscending(sp.Messages[k])

\* C16: Spec.Validate leaves the caller's tree as it was. Spec.Write changes
\* nothing but the order inside the value lists of the enumerations; after a
\* successful Spec.Write every value list, top-level and nested, holds the
\* values it held before, ascending by tag.
C16_OnlyValueOrderChanges ==
  \A i \in LastCall :
    /\ calls[i].op = "Validate" => s = calls[i].recv
    /\ calls[i].op = "Write" =>
         /\ UnorderedSpec(s) = UnorderedSpec(calls[i].recv)
         /\ calls[i].err = nil => SpecAscending(s)

C16_Witness ==
  \E i \in LastWrite :
    /\ calls[i].err = nil
    /\ Len(s.Enums) > 0
    /\ \E k \in DOMAIN s.Enums : s.Enums[k] # calls[i].recv.Enums[k]
    /\ \E k \in DOMAIN s.Messages :
         /\ s.Messages[k].Enums # calls[i].recv.Messages[k].Enums
         /\ [s.Messages[k] EXCEPT !.Enums = << >>]
              = [calls[i].recv.Messages[k] EXCEPT !.Enums = << >>]

(***************************************************************************)
(* A caller holding one composite alone: a message or a group (block), or  *)
(* an enumeration (e), and calling its Validate or its Write at some level.*)
(***************************************************************************)
\* the largest level a caller passes to Write
MaxLevel == 2

RECURSIVE EditSetsOf(_, _)
EditSetsOf(edits, k) ==
  IF k = 0 THEN {{}}
  ELSE LET smaller == EditSetsOf(edits, k - 1)
       IN smaller \cup {V \cup {x} : V \in smaller, x \in edits}

\* the message Beacon after at most MaxEdits edits of its own parts
Beacons ==
  {EditedSpec(V).Messages[1] : V \in EditSetsOf(EditsOfMessage("Beacon"), MaxEdits)}

\* these messages and the messages nested in them
MessagesAlone ==
  Beacons \cup UNION {{b.Messages[k] : k \in DOMAIN b.Messages} : b \in Beacons}

GroupsAlone ==
  {TestOneOf, [TestOneOf EXCEPT !.Comment = ""], [TestOneOf EXCEPT !.Name = ""],
   OneOf("nothing", << >>, ""),
   OneOf("choice", <<ScalarField("", 33, None, "", StringType)>>, "")}

EnumsAlone ==
  {Country, PlaybackState, Clashing, [Country EXCEPT !.Name = ""],
   Enum("Nothing", << >>, FALSE, "")}

IsMessage(r) == "Messages" \in DOMAIN r

IsOneOf(r) == "Fields" \in DOMAIN r /\ "Messages" \notin DOMAIN r

IsEnum(r) == "Values" \in DOMAIN r

\* a call of Write with its level argument
LevelCall(recv, level, w) ==
  [op |-> "Write", recv |-> recv, level |-> level, text |-> w.text, err |-> w.err]

InitBlock ==
  /\ s = NoValue
  /\ leaf = NoValue
  /\ \/ block \in MessagesAlone \cup GroupsAlone /\ e = NoValue
     \/ block = NoValue /\ e \in EnumsAlone
  /\ heap = << >>
  /\ writers = << >>
  /\ calls = << >>

CallMessageValidate ==
  /\ IsMessage(block)
  /\ Len(calls) < MaxDirectCalls
  /\ calls' = Append(calls, Call("Validate", block, << >>, MessageValidate(block)))
  /\ UNCHANGED <<s, e, leaf, block, heap, writers>>

CallMessageWrite ==
  /\ IsMessage(block)
  /\ Len(calls) < MaxDirectCalls
  /\ \E level \in 0 .. MaxLevel :
       /\ block' = MessageWrite(block, level).recv
       /\ calls' = Append(calls, LevelCall(block, level, MessageWrite(block, level)))
  /\ UNCHANGED <<s, e, leaf, heap, writers>>

CallOneOfValidate ==
  /\ IsOneOf(block)
  /\ Len(calls) < MaxDirectCalls
  /\ calls' = Append(calls, Call("Validate", block, << >>, OneOfValidate(block)))
  /\ UNCHANGED <<s, e, leaf, block, heap, writers>>

CallOneOfWrite ==
  /\ IsOneOf(block)
  /\ Len(calls) < MaxDirectCalls
  /\ \E level \in 0 .. MaxLevel :
       calls' = Append(calls, LevelCall(block, level, OneOfWrite(block, level)))
  /\ UNCHANGED <<s, e, leaf, block, heap, writers>>

NextBlock ==
  \/ CallMessageValidate \/ CallMessageWrite
  \/ CallOneOfValidate \/ CallOneOfWrite
  \/ CallEnumValidate \/ CallEnumWrite

SpecBlock == InitBlock /\ [][NextBlock]_vars

(***************************************************************************)
(* Claims on a composite held alone (SpecBlock).                           *)
(***************************************************************************)
\* the lines of a block that are its own: of each block nested in it only the
\* comment, the header and the closing brace are kept. nested holds the
\* indentation and the headers of the nested blocks.
RECURSIVE OwnLines(_, _, _, _, _)
OwnLines(text, k, inside, nested, acc) ==
  IF k > Len(text) THEN acc
  ELSE IF inside
    THEN IF text[k] = Line(nested.indent, "}")
           THEN OwnLines(text, k + 1, FALSE, nested, Append(acc, text[k]))
           ELSE OwnLines(text, k + 1, TRUE, nested, acc)
  ELSE OwnLines(text, k + 1,
                text[k].indent = nested.indent /\ text[k].body \in nested.headers,
                nested, Append(acc, text[k]))

HeadersOf(word, items) == {word \o " " \o items[k].Name \o " {" : k \in DOMAIN items}

\* comment, header and closing brace of each block of a list, indented by
\* indent spaces, each block followed by the lines after
RECURSIVE EndsOfBlocks(_, _, _, _)
EndsOfBlocks(word, items, indent, after) ==
  IF items = << >> THEN << >>
  ELSE (IF Head(items).Comment # ""
          THEN <<Line(indent, "// " \o Head(items).Comment)>> ELSE << >>)
         \o <<Line(indent, word \o " " \o Head(items).Name \o " {"), Line(indent, "}")>>
         \o after
         \o EndsOfBlocks(word, Tail(items), indent, after)

\* the lines of the leaves of a list, indented by indent spaces, and one blank
\* line after them if there is at least one
LinesOfLeaves(items, indent, prefix, suffix) ==
  [k \in DOMAIN items |-> Line(indent, prefix \o LeafWrite(items[k]).text \o suffix)]
  \o (IF Len(items) >= 1 THEN <<BlankLine>> ELSE << >>)

\* the layout of the block of a message at depth d
LayoutOfMessage(r, d) ==
  (IF r.Comment # "" THEN <<Line(2 * d, "// " \o r.Comment)>> ELSE << >>)
  \o <<Line(2 * d, "message " \o r.Name \o " {")>>
  \o EndsOfBlocks("message", r.Messages, 2 * (d + 1), <<BlankLine>>)
  \o EndsOfBlocks("enum", r.Enums, 2 * (d + 1), <<BlankLine>>)
  \o LinesOfLeaves(r.ReservedValues, 2 * (d + 1), "reserved ", ";")
  \o LinesOfLeaves(r.Fields, 2 * (d + 1), "", "")
  \o EndsOfBlocks("oneof", r.OneOfs, 2 * (d + 1), << >>)
  \o <<Line(2 * d, "}")>>

MessageWrites == {i \in WriteCalls : IsMessage(calls[i].recv)}

ChildErrors(r) ==
  [k \in DOMAIN r.Fields |-> LeafValidate(r.Fields[k])]
  \o [k \in DOMAIN r.Messages |-> MessageValidate(r.Messages[k])]
  \o [k \in DOMAIN r.ReservedValues |-> LeafValidate(r.ReservedValues[k])]
  \o [k \in DOMAIN r.Enums |-> EnumValidate(r.Enums[k])]

MessageValidates == {i \in ValidateCalls : IsMessage(calls[i].recv)}

\* C15: Message.Validate checks the name of the message first, then the
\* fields, the nested messages, the reserved values and the enumerations, and
\* returns the first failure in that order: the error of the earliest
\* collection that holds a failing element, and inside it of the earliest
\* failing element.
C15_FirstFailureInOrder ==
  \A i \in LastCall \cap MessageValidates :
    /\ calls[i].recv.Name = "" => calls[i].err = "Message name cannot be empty"
    /\ calls[i].recv.Name # "" =>
         /\ calls[i].err = nil
              <=> \A k \in DOMAIN ChildErrors(calls[i].recv) :
                    ChildErrors(calls[i].recv)[k] = nil
         /\ calls[i].err # nil
              => \E k \in DOMAIN ChildErrors(calls[i].recv) :
                   /\ ChildErrors(calls[i].recv)[k] = calls[i].err
                   /\ \A j \in 1 .. (k - 1) : ChildErrors(calls[i].recv)[j] = nil

\* a message with two fields that fail differently and a failing enumeration
C15_Witness ==
  /\ \E i \in MessageValidates :
       /\ calls[i].recv.Name # ""
       /\ \E k \in DOMAIN calls[i].recv.Fields : ~LeafSound(calls[i].recv.Fields[k])
       /\ \E k \in DOMAIN calls[i].recv.Enums : ~EnumSound(calls[i].recv.Enums[k])
       /\ calls[i].err # nil
       /\ Cardinality({j \in DOMAIN calls[i].recv.Fields :
                         ~LeafSound(calls[i].recv.Fields[j])}) > 1

FailsOwnValidate(r) ==
  CASE IsMessage(r) -> MessageValidate(r) # nil
    [] IsOneOf(r) -> OneOfValidate(r) # nil
    [] IsEnum(r) -> EnumValidate(r) # nil

\* C17: Enum.Write and OneOf.Write, called on an entity that fails its own
\* Validate, return an error and no text, as Message.Write does on a message
\* that fails its Validate.
C17_InvalidBlockNoText ==
  \A i \in LastWrite :
    FailsOwnValidate(calls[i].recv) => calls[i].err # nil /\ calls[i].text = << >>

(***************************************************************************)
(* Two callers running Spec.Write at the same time, step by step. The      *)
(* value list of an enumeration is an array in memory (heap.lists) that    *)
(* the enumeration points to; Swap loads the two values it exchanges into  *)
(* the frame of its call (heap.tmp) and stores them one after the other.   *)
(* The lists are shorter than ShellSortGap + 1, so sort.Sort is the        *)
(* insertion sort alone.                                                   *)
(***************************************************************************)
Writers == {"A", "B"}

\* the length of the value lists of the two documents
MaxRaceValues == 3

\* the temporaries of Swap kept in one place for all calls
FrameShared(t) == "A"

\* the temporaries of Swap belong to the call
Frame(t) == t

\* the value lists of the first caller: tags 0 and 1 in any arrangement
RaceLists ==
  UNION {{[k \in 1 .. n |-> EnumValue(ValueName(k), tags[k], "")] :
            tags \in [1 .. n -> {0, 1}]} : n \in 0 .. MaxRaceValues}

\* the value lists of the second caller: distinct tags, largest first
Descending(n) == [k \in 1 .. n |-> EnumValue(ValueName(k), n - k, "")]

RaceMessage ==
  Message("Other", "", << >>, << >>, <<ScalarField("id", 1, None, "", Int32Type)>>,
          << >>, << >>)

\* the document of a caller, its value list being values
DocOf(w, values) ==
  [Package |-> w.name, JavaPackage |-> "", Imports |-> << >>,
   Messages |-> <<RaceMessage>>,
   Enums |-> <<Enum("State", values, w.alias, "")>>]

\* the value list the document of caller t points to
ListOf(t) == heap.lists[writers[t].list]

InitRace ==
  /\ s = NoValue
  /\ e = NoValue
  /\ leaf = NoValue
  /\ block = NoValue
  /\ calls = << >>
  /\ \E a \in RaceLists, alias \in BOOLEAN, n \in 0 .. MaxRaceValues, shared \in BOOLEAN :
       /\ heap = [lists |-> [t \in Writers |->
                               IF t = "A" THEN a
                               ELSE IF shared THEN << >> ELSE Descending(n)],
                  tmp |-> [t \in Writers |-> << >>]]
       /\ writers = [t \in Writers |->
                       [name |-> t, pc |-> "validate",
                        list |-> IF shared THEN "A" ELSE t,
                        alias |-> IF t = "A" THEN alias ELSE FALSE,
                        given |-> IF t = "A" \/ shared THEN a ELSE Descending(n),
                        i |-> 0, j |-> 0, buf |-> << >>, ret |-> NoValue]]

\* Spec.Write: s.Validate(), then the lines that open the text
WriterValidate(t) ==
  /\ writers[t].pc = "validate"
  /\ writers' =
       [writers EXCEPT ![t] =
          IF SpecValidate(DocOf(writers[t], ListOf(t))) # nil
            THEN [@ EXCEPT !.pc = "done",
                           !.ret = [text |-> << >>,
                                    err |-> SpecValidate(DocOf(writers[t], ListOf(t)))]]
            ELSE [@ EXCEPT !.pc = "less", !.i = 1, !.j = 1,
                           !.buf = SpecHeader(DocOf(writers[t], ListOf(t)))]]
  /\ UNCHANGED <<s, e, leaf, block, heap, calls>>

\* insertionSort: the tests i < b and j > a && data.Less(j, j-1)
WriterLess(t) ==
  /\ writers[t].pc = "less"
  /\ writers' =
       [writers EXCEPT ![t] =
          IF @.i >= EnumLen(ListOf(t)) THEN [@ EXCEPT !.pc = "emit"]
          ELSE IF @.j > 0 /\ EnumLess(ListOf(t), @.j, @.j - 1)
            THEN [@ EXCEPT !.pc = "load"]
          ELSE [@ EXCEPT !.i = @ + 1, !.j = writers[t].i + 1]]
  /\ UNCHANGED <<s, e, leaf, block, heap, calls>>

\* Enum.Swap(j, j-1): the right-hand side is read
WriterLoad(t) ==
  /\ writers[t].pc = "load"
  /\ heap' = [heap EXCEPT !.tmp[Frame(t)] =
                <<ListOf(t)[writers[t].j], ListOf(t)[writers[t].j + 1]>>]
  /\ writers' = [writers EXCEPT ![t].pc = "first"]
  /\ UNCHANGED <<s, e, leaf, block, calls>>

\* Enum.Swap(j, j-1): e.Values[j] is stored
WriterStoreFirst(t) ==
  /\ writers[t].pc = "first"
  /\ heap' = [heap EXCEPT !.lists[writers[t].list][writers[t].j + 1] =
                heap.tmp[Frame(t)][1]]
  /\ writers' = [writers EXCEPT ![t].pc = "second"]
  /\ UNCHANGED <<s, e, leaf, block, calls>>

\* Enum.Swap(j, j-1): e.Values[j-1] is stored; then j--
WriterStoreSecond(t) ==
  /\ writers[t].pc = "second"
  /\ heap' = [heap EXCEPT !.lists[writers[t].list][writers[t].j] =
                heap.tmp[Frame(t)][2]]
  /\ writers' = [writers EXCEPT ![t].pc = "less", ![t].j = @ - 1]
  /\ UNCHANGED <<s, e, leaf, block, calls>>

\* Enum.Write after the sort, and the "\n%s\n" of Spec.Write around it
WriterEmit(t) ==
  /\ writers[t].pc = "emit"
  /\ writers' =
       [writers EXCEPT ![t] =
          [@ EXCEPT !.pc = "messages",
                    !.buf = @ \o <<BlankLine>>
                              \o EnumBlock(DocOf(writers[t], ListOf(t)).Enums[1], 0)]]
  /\ UNCHANGED <<s, e, leaf, block, heap, calls>>

\* Spec.Write: the loop over s.Messages and the return
WriterMessages(t) ==
  /\ writers[t].pc = "messages"
  /\ writers' =
       [writers EXCEPT ![t] =
          [@ EXCEPT !.pc = "done",
                    !.ret = [text |-> SpecMessagesWritten(
                                        [text |-> writers[t].buf, err |-> nil,
                                         recv |-> DocOf(writers[t], ListOf(t))]).text,
                             err |-> SpecMessagesWritten(
                                       [text |-> writers[t].buf, err |-> nil,
                                        recv |-> DocOf(writers[t], ListOf(t))]).err]]]
  /\ UNCHANGED <<s, e, leaf, block, heap, calls>>

NextRace ==
  \E t \in Writers :
    \/ WriterValidate(t) \/ WriterLess(t)
    \/ WriterLoad(t) \/ WriterStoreFirst(t) \/ WriterStoreSecond(t)
    \/ WriterEmit(t) \/ WriterMessages(t)

SpecRace == InitRace /\ [][NextRace]_vars

(***************************************************************************)
(* Claims on concurrent renders (SpecRace).                                *)
(***************************************************************************)
\* what Spec.Write returns, and leaves behind, when caller t runs alone
Alone(t) == SpecWrite(DocOf(writers[t], writers[t].given))

NoListShared == \A t, u \in Writers : t # u => writers[t].list # writers[u].list

\* C18: when the Documents of concurrent Spec.Write calls share no value
\* list, then under every interleaving of their steps (validation, the swaps
\* of the in-place sort, the assembly of the text) each call returns the text
\* or error it returns when it runs alone, and leaves its tree as a solitary
\* render leaves it.
C18_ConcurrentWritesAsAlone ==
  NoListShared =>
    \A t \in Writers :
      writers[t].pc = "done" =>
        /\ writers[t].ret.text = Alone(t).text
        /\ writers[t].ret.err = Alone(t).err
        /\ ListOf(t) = Alone(t).recv.Enums[1].Values

C18_Witness ==
  /\ NoListShared
  /\ \A t \in Writers :
       /\ writers[t].pc = "done"
       /\ writers[t].ret.err = nil
       /\ ListOf(t) # writers[t].given

====
